---- MODULE Spec2Model ----
(***************************************************************************)
(* The chunk-splitting engine of ParTI (src/src/sptensor/split.c) over the *)
(* growable size vectors of src/src/vector/vector.c.                       *)
(*                                                                         *)
(* C arrays are modelled as functions over 0..cap-1; a cell that the code  *)
(* has allocated and not written holds Uninit.  A split status, a tensor   *)
(* and a vector that do not exist are the records NoStatus, NoTensor and   *)
(* NoVec, so that every variable keeps one shape.                          *)
(***************************************************************************)
EXTENDS Integers, Sequences, FiniteSets, TLC

(* ------------------------------ bounds --------------------------------- *)
\* largest number of nonzeros of a source tensor
MaxNnz == 4
\* every mode has dimension MaxDim: index values are 0..MaxDim-1
MaxDim == 2
\* largest requested cut count of a mode
MaxCut == 3
\* largest number of nonzeros of a tensor that two statuses share
MaxNnzTwo == 2
\* largest number of nonzeros of a tensor split by a caller that calls until
\* it is told NoMore
MaxNnzLive == 3
\* largest capacity of the vectors that are driven on their own
MaxCap == 4
\* largest length of a vector that is appended to another
MaxAppendLen == 2
\* largest number of produce calls made on an exhausted status
MaxNoMore == 2
\* largest nnz of a tensor whose status two threads share
MaxNnzConc == 2
\* largest number of produce calls the two threads make on the shared status
MaxCallsConc == 3
\* the mode counts of the source tensors
ModeCounts == {1, 2}

\* content of an allocated cell that was never written
Uninit == 0 - 1

(* ------------------------------ error codes ---------------------------- *)
\* Return values are "OK" (0), "NO_MORE", "VALUE_ERROR" and "OS_ERROR" (an
\* allocation that failed); "ASSERT" is the assertion of line 77 failing.

\* spt_CheckError(errcode, module, reason): TRUE when the macro makes the
\* calling function return errcode, which it does for every code but 0
spt_CheckError(errcode) == errcode # "OK"

(* --------------------------- growable vectors -------------------------- *)
NoVec == [len |-> 0, cap |-> 0, data |-> [i \in {} |-> Uninit]]

\* sptNewSizeVector(vec, len, cap): ok = FALSE is malloc returning NULL
sptNewSizeVector(len, cap, ok) ==
    LET c1 == IF cap < len THEN len ELSE cap
        c2 == IF c1 < 2 THEN 2 ELSE c1
    IN  IF ok
        THEN [result |-> "OK",
              vec |-> [len |-> len, cap |-> c2, data |-> [i \in 0..(c2 - 1) |-> Uninit]]]
        ELSE [result |-> "OS_ERROR",
              vec |-> [len |-> len, cap |-> c2, data |-> [i \in {} |-> Uninit]]]

\* sptNewVector is the same code on sptScalar elements
sptNewVector(len, cap, ok) ==
    LET c1 == IF cap < len THEN len ELSE cap
        c2 == IF c1 < 2 THEN 2 ELSE c1
    IN  IF ok
        THEN [result |-> "OK",
              vec |-> [len |-> len, cap |-> c2, data |-> [i \in 0..(c2 - 1) |-> Uninit]]]
        ELSE [result |-> "OS_ERROR",
              vec |-> [len |-> len, cap |-> c2, data |-> [i \in {} |-> Uninit]]]

\* realloc(data, newcap): the common prefix is kept, new cells are unwritten
Realloc(data, oldcap, newcap) ==
    [i \in 0..(newcap - 1) |-> IF i < oldcap THEN data[i] ELSE Uninit]

\* sptAppendSizeVector(vec, value): ok = FALSE is realloc returning NULL,
\* which is only asked for when cap <= len
sptAppendSizeVector(vec, value, ok) ==
    LET grow   == vec.cap <= vec.len
        newcap == vec.cap + (vec.cap \div 2)
        v1     == IF grow
                  THEN [vec EXCEPT !.cap = newcap,
                                   !.data = Realloc(vec.data, vec.cap, newcap)]
                  ELSE vec
    IN  IF grow /\ ~ok
        THEN [result |-> "OS_ERROR", vec |-> vec]
        ELSE [result |-> "OK",
              vec |-> [v1 EXCEPT !.data = [v1.data EXCEPT ![v1.len] = value],
                                 !.len = v1.len + 1]]

\* sptAppendVector is the same code on sptScalar elements
sptAppendVector(vec, value, ok) ==
    LET grow   == vec.cap <= vec.len
        newcap == vec.cap + (vec.cap \div 2)
        v1     == IF grow
                  THEN [vec EXCEPT !.cap = newcap,
                                   !.data = Realloc(vec.data, vec.cap, newcap)]
                  ELSE vec
    IN  IF grow /\ ~ok
        THEN [result |-> "OS_ERROR", vec |-> vec]
        ELSE [result |-> "OK",
              vec |-> [v1 EXCEPT !.data = [v1.data EXCEPT ![v1.len] = value],
                                 !.len = v1.len + 1]]

\* the loop of lines 118-121: cell len + i is written and len is incremented
\* in the same iteration; a write past the capacity leaves the vector's own
\* cells alone
RECURSIVE AppendLoop(_, _, _)
AppendLoop(vec, append_vec, i) ==
    IF ~(i < append_vec.len) THEN vec
    ELSE AppendLoop(
             [vec EXCEPT !.data = IF vec.len + i < vec.cap
                                  THEN [@ EXCEPT ![vec.len + i] = append_vec.data[i]]
                                  ELSE @,
                         !.len = @ + 1],
             append_vec, i + 1)

\* an append of a vector that asks for memory one cell early
sptAppendVectorWithVector_early(vec, append_vec, ok) ==
    LET grow   == vec.cap <= vec.len + 1
        newcap == vec.cap + append_vec.cap
        v1     == IF grow
                  THEN [vec EXCEPT !.cap = newcap,
                                   !.data = Realloc(vec.data, vec.cap, newcap)]
                  ELSE vec
    IN  IF grow /\ ~ok
        THEN [result |-> "OS_ERROR", vec |-> vec, oob |-> FALSE]
        ELSE [result |-> "OK", vec |-> AppendLoop(v1, append_vec, 0),
              oob |-> \E i \in 0..(append_vec.len - 1) : ~(v1.len + 2 * i < v1.cap)]

\* sptAppendVectorWithVector(vec, append_vec): realloc is asked for when
\* cap <= len; oob is a cell written at or past the capacity
sptAppendVectorWithVector(vec, append_vec, ok) ==
    LET grow   == vec.cap <= vec.len
        newcap == vec.cap + append_vec.cap
        v1     == IF grow
                  THEN [vec EXCEPT !.cap = newcap,
                                   !.data = Realloc(vec.data, vec.cap, newcap)]
                  ELSE vec
    IN  IF grow /\ ~ok
        THEN [result |-> "OS_ERROR", vec |-> vec, oob |-> FALSE]
        ELSE [result |-> "OK", vec |-> AppendLoop(v1, append_vec, 0),
              oob |-> \E i \in 0..(append_vec.len - 1) : ~(v1.len + 2 * i < v1.cap)]

\* sptAppendSizeVectorWithVector(vec, append_vec): realloc is asked for when
\* cap <= len + append_vec->len
sptAppendSizeVectorWithVector(vec, append_vec, ok) ==
    LET newlen == vec.len + append_vec.len
        grow   == vec.cap <= newlen
        newcap == vec.cap + append_vec.cap
        v1     == IF grow
                  THEN [vec EXCEPT !.cap = newcap,
                                   !.data = Realloc(vec.data, vec.cap, newcap)]
                  ELSE vec
    IN  IF grow /\ ~ok
        THEN [result |-> "OS_ERROR", vec |-> vec, oob |-> FALSE]
        ELSE [result |-> "OK",
              vec |-> [v1 EXCEPT !.data = [i \in DOMAIN v1.data |->
                                             IF i >= v1.len /\ i < newlen
                                             THEN append_vec.data[i - v1.len]
                                             ELSE v1.data[i]],
                                 !.len = newlen],
              oob |-> ~(newlen <= v1.cap)]

\* sptResizeSizeVector(vec, size)
sptResizeSizeVector(vec, size, ok) ==
    LET newcap == IF size < 2 THEN 2 ELSE size
    IN  IF newcap # vec.cap
        THEN IF ok
             THEN [result |-> "OK",
                   vec |-> [len |-> size, cap |-> newcap,
                            data |-> Realloc(vec.data, vec.cap, newcap)]]
             ELSE [result |-> "OS_ERROR", vec |-> vec]
        ELSE [result |-> "OK", vec |-> [vec EXCEPT !.len = size]]

\* sptResizeVector is the same code on sptScalar elements
sptResizeVector(vec, size, ok) ==
    LET newcap == IF size < 2 THEN 2 ELSE size
    IN  IF newcap # vec.cap
        THEN IF ok
             THEN [result |-> "OK",
                   vec |-> [len |-> size, cap |-> newcap,
                            data |-> Realloc(vec.data, vec.cap, newcap)]]
             ELSE [result |-> "OS_ERROR", vec |-> vec]
        ELSE [result |-> "OK", vec |-> [vec EXCEPT !.len = size]]

\* a copy that stores the cells in the opposite order
Memcpy_reversed(dest, src, from, n) ==
    [dest EXCEPT !.data = [i \in DOMAIN dest.data |->
                              IF i < n THEN src.data[from + n - 1 - i] ELSE dest.data[i]]]

\* a copy that starts at the first cell of the source
Memcpy_fromStart(dest, src, from, n) ==
    [dest EXCEPT !.data = [i \in DOMAIN dest.data |->
                              IF i < n THEN src.data[i] ELSE dest.data[i]]]

\* memcpy(dest.data, &src.data[from], n * sizeof ...)
Memcpy(dest, src, from, n) ==
    [dest EXCEPT !.data = [i \in DOMAIN dest.data |->
                              IF i < n THEN src.data[from + i] ELSE dest.data[i]]]


(* ------------------------------- tensors ------------------------------- *)
NoTensor == [nmodes |-> 0, ndims |-> [m \in {} |-> 0], sortkey |-> 0, nnz |-> 0,
             inds |-> [m \in {} |-> NoVec], values |-> NoVec]

\* a C array of n written cells held by a vector of capacity max(n, 2)
VecOf(n, f) ==
    LET cap == IF n < 2 THEN 2 ELSE n
    IN  [len |-> n, cap |-> cap,
         data |-> [i \in 0..(cap - 1) |-> IF i < n THEN f[i] ELSE Uninit]]

RECURSIVE Pow(_, _)
Pow(b, e) == IF e = 0 THEN 1 ELSE b * Pow(b, e - 1)

\* the coordinate of rank r in row-major order: its mode-m index
Digit(r, m, nmodes) == (r \div Pow(MaxDim, nmodes - 1 - m)) % MaxDim

\* non-decreasing rank sequences are the lexicographically sorted COO lists
SortedRanks(nmodes, n) ==
    {s \in [0..(n - 1) -> 0..(Pow(MaxDim, nmodes) - 1)] :
        \A k \in 1..(n - 1) : s[k - 1] <= s[k]}

\* the value array of a tensor of n nonzeros: scalars are opaque to the
\* engine, and pairwise distinct cells tell every nonzero from the others
ValueArray(n) == [k \in 0..(n - 1) |-> k + 1]

SourceTensors ==
    {[nmodes |-> nm, ndims |-> [m \in 0..(nm - 1) |-> MaxDim], sortkey |-> sk, nnz |-> n,
      inds |-> [m \in 0..(nm - 1) |-> VecOf(n, [k \in 0..(n - 1) |-> Digit(s[k], m, nm)])],
      values |-> VecOf(n, ValueArray(n))] :
        <<nm, n, sk, s>> \in
            UNION {UNION {UNION {{nm0} \X {n0} \X {sk0} \X SortedRanks(nm0, n0)
                                   : sk0 \in 0..(nm0 - 1)}
                           : n0 \in 0..MaxNnz}
                    : nm0 \in ModeCounts}}

\* Scenario A of the specification: 2 modes, 6 nonzeros
ScenarioA ==
    LET i0 == [k \in 0..5 |-> k \div 2]
        i1 == [k \in 0..5 |-> k % 2]
    IN  [nmodes |-> 2, ndims |-> [m \in 0..1 |-> 3], sortkey |-> 1, nnz |-> 6,
         inds |-> [m \in 0..1 |-> VecOf(6, IF m = 0 THEN i0 ELSE i1)],
         values |-> VecOf(6, ValueArray(6))]

(* ----------------------------- split engine ---------------------------- *)
NoStatus == [exists |-> FALSE, tsr |-> "NULL", cuts_by_mode |-> NoVec,
             partial_low |-> NoVec, partial_high |-> NoVec, index_step |-> NoVec,
             no_more |-> 0]

\* the allocation of a start call that fails, if any
StartFails == {[site |-> x] : x \in {"none", "status", "cuts_by_mode", "partial_low",
                                      "partial_high", "index_step"}}

\* the allocation of a produce call that fails, if any
SplitFails == {[site |-> x] : x \in {"none", "append", "tensor", "inds", "values"}}

\* start with the two precondition checks in the other order
Start_sortkeyFirst(t, cuts0, fail) ==
    IF t.sortkey # t.nmodes - 1 THEN [result |-> "VALUE_ERROR", status |-> NoStatus]
    ELSE IF t.nnz = 0 THEN [result |-> "NO_MORE", status |-> NoStatus]
    ELSE [result |-> "OK",
          status |-> [exists |-> TRUE, tsr |-> "source",
                      cuts_by_mode |-> VecOf(t.nmodes, cuts0),
                      partial_low |-> [sptNewSizeVector(1, t.nmodes + 1, TRUE).vec
                                          EXCEPT !.data[0] = 0],
                      partial_high |-> [sptNewSizeVector(1, t.nmodes + 1, TRUE).vec
                                          EXCEPT !.data[0] = t.nnz],
                      index_step |-> sptNewSizeVector(0, t.nmodes, TRUE).vec,
                      no_more |-> 0]]

\* start without the copy of the caller's cut counts
Start_noCopy(t, cuts0, fail) ==
    IF t.nnz = 0 THEN [result |-> "NO_MORE", status |-> NoStatus]
    ELSE IF t.sortkey # t.nmodes - 1 THEN [result |-> "VALUE_ERROR", status |-> NoStatus]
    ELSE [result |-> "OK",
          status |-> [exists |-> TRUE, tsr |-> "source",
                      cuts_by_mode |-> sptNewSizeVector(t.nmodes, t.nmodes, TRUE).vec,
                      partial_low |-> [sptNewSizeVector(1, t.nmodes + 1, TRUE).vec
                                          EXCEPT !.data[0] = 0],
                      partial_high |-> [sptNewSizeVector(1, t.nmodes + 1, TRUE).vec
                                          EXCEPT !.data[0] = t.nnz],
                      index_step |-> sptNewSizeVector(0, t.nmodes, TRUE).vec,
                      no_more |-> 0]]

\* Line 44 does not test what malloc returns and line 45 stores through it:
\* when that malloc fails the call has undefined behaviour, result "UNDEFINED".
spt_StartSplitSparseTensor(t, cuts0, fail) ==
    IF t.nnz = 0 /\ spt_CheckError("NO_MORE") THEN [result |-> "NO_MORE", status |-> NoStatus]
    ELSE IF t.sortkey # t.nmodes - 1 /\ spt_CheckError("VALUE_ERROR")
    THEN [result |-> "VALUE_ERROR", status |-> NoStatus]
    ELSE IF fail.site = "status" THEN [result |-> "UNDEFINED", status |-> NoStatus]
    ELSE
    LET s0 == [NoStatus EXCEPT !.exists = TRUE, !.tsr = "source"]
        n1 == sptNewSizeVector(t.nmodes, t.nmodes, fail.site # "cuts_by_mode")
        s1 == [s0 EXCEPT !.cuts_by_mode = n1.vec]
        s2 == [s1 EXCEPT !.cuts_by_mode.data =
                  [i \in DOMAIN s1.cuts_by_mode.data |->
                      IF i < t.nmodes THEN cuts0[i] ELSE s1.cuts_by_mode.data[i]]]
        n3 == sptNewSizeVector(1, t.nmodes + 1, fail.site # "partial_low")
        s3 == [s2 EXCEPT !.partial_low = n3.vec]
        n4 == sptNewSizeVector(1, t.nmodes + 1, fail.site # "partial_high")
        s4 == [s3 EXCEPT !.partial_high = n4.vec]
        n5 == sptNewSizeVector(0, t.nmodes, fail.site # "index_step")
        s5 == [s4 EXCEPT !.index_step = n5.vec]
        s6 == [s5 EXCEPT !.partial_low.data[0] = 0,
                         !.partial_high.data[0] = t.nnz,
                         !.no_more = 0]
    IN  IF spt_CheckError(n1.result) THEN [result |-> n1.result, status |-> s1]
        ELSE IF spt_CheckError(n3.result) THEN [result |-> n3.result, status |-> s3]
        ELSE IF spt_CheckError(n4.result) THEN [result |-> n4.result, status |-> s4]
        ELSE IF spt_CheckError(n5.result) THEN [result |-> n5.result, status |-> s5]
        ELSE [result |-> n5.result, status |-> s6]

\* the counting loop of lines 86-92: one more than the value changes seen
RECURSIVE CountScan(_, _, _, _, _)
CountScan(data, i, high, last_index, index_counts) ==
    IF ~(i < high) THEN index_counts
    ELSE IF data[i] # last_index
         THEN CountScan(data, i + 1, high, data[i], index_counts + 1)
         ELSE CountScan(data, i + 1, high, last_index, index_counts)

\* a count that starts from 0 and so counts the value changes only
CountIndices_fromZero(data, low, high) == CountScan(data, low, high, data[low], 0)

CountIndices(data, low, high) == CountScan(data, low, high, data[low], 1)

\* a step rounded down: index_counts / cut, and 1 when that is 0
IndexStep_floor(index_counts, cut) ==
    IF index_counts \div cut = 0 THEN 1 ELSE index_counts \div cut

\* a step without the + 1 of line 96
IndexStep_noPlusOne(index_counts, cut) ==
    IF index_counts # 0 THEN (index_counts - 1) \div cut ELSE 1

IndexStep(index_counts, cut) ==
    IF index_counts # 0 THEN ((index_counts - 1) \div cut) + 1 ELSE 1

\* the cutting loop of lines 110-119 and 166-175: the value of i it ends with
RECURSIVE CutScan(_, _, _, _, _, _)
CutScan(data, i, high, last_index, index_counts, step) ==
    IF ~(i < high) THEN i
    ELSE IF data[i] # last_index
         THEN IF index_counts = step THEN i
              ELSE CutScan(data, i + 1, high, data[i], index_counts + 1, step)
         ELSE CutScan(data, i + 1, high, last_index, index_counts, step)

\* a cut whose run counter starts at 0
FindCut_fromZero(data, low, high, step) == CutScan(data, low, high, data[low], 0, step)

FindCut(data, low, high, step) == CutScan(data, low, high, data[low], 1, step)

\* one pass of the body of the descend loop, lines 75-125
DescendStep(t, st, mode, fail) ==
    LET low  == st.partial_low.data[mode]
        high == st.partial_high.data[mode]
    IN  IF ~(low < high) THEN [result |-> "ASSERT", status |-> st]
        ELSE
        LET index_counts == CountIndices(t.inds[mode].data, low, high)
            index_step   == IndexStep(index_counts, st.cuts_by_mode.data[mode])
            a1 == sptAppendSizeVector(st.index_step, index_step, fail.site # "append")
            s1 == [st EXCEPT !.index_step = a1.vec]
            i  == FindCut(t.inds[mode].data, low, high, s1.index_step.data[mode])
            a2 == sptAppendSizeVector(s1.partial_low, low, fail.site # "append")
            s2 == [s1 EXCEPT !.partial_low = a2.vec]
            a3 == sptAppendSizeVector(s2.partial_high, i, fail.site # "append")
            s3 == [s2 EXCEPT !.partial_high = a3.vec]
        IN  IF spt_CheckError(a1.result) THEN [result |-> a1.result, status |-> s1]
            ELSE IF spt_CheckError(a2.result) THEN [result |-> a2.result, status |-> s2]
            ELSE IF spt_CheckError(a3.result) THEN [result |-> a3.result, status |-> s3]
            ELSE [result |-> "OK", status |-> s3]

\* the descend loop of lines 74-126, entered with the given mode
RECURSIVE Descend(_, _, _, _)
Descend(t, st, mode, fail) ==
    IF ~(mode < t.nmodes) THEN [result |-> "OK", status |-> st]
    ELSE CHOOSE next \in {IF r.result # "OK" THEN r
                          ELSE Descend(t, r.status, mode + 1, fail)
                              : r \in {DescendStep(t, st, mode, fail)}} : TRUE

\* sptNewSparseTensor(dest, nmodes, ndims): a tensor of the given mode count
\* and dimensions with no nonzeros; on failure dest is not usable
sptNewSparseTensor(nmodes, ndims, ok) ==
    IF ok
    THEN [result |-> "OK",
          tsr |-> [nmodes |-> nmodes, ndims |-> ndims, sortkey |-> nmodes - 1, nnz |-> 0,
                   inds |-> [m \in 0..(nmodes - 1) |-> sptNewSizeVector(0, 0, TRUE).vec],
                   values |-> sptNewVector(0, 0, TRUE).vec]]
    ELSE [result |-> "OS_ERROR", tsr |-> NoTensor]

\* the copy loop of lines 137-141, entered with the given mode
RECURSIVE CopyInds(_, _, _, _, _, _)
CopyInds(t, d, cut_low, cut_high, mode, fail) ==
    IF ~(mode < t.nmodes) THEN [result |-> "OK", dest |-> d]
    ELSE
    LET r  == sptResizeSizeVector(d.inds[mode], cut_high - cut_low, fail.site # "inds")
        d1 == [d EXCEPT !.inds[mode] = r.vec]
        d2 == [d1 EXCEPT !.inds[mode] = Memcpy(d1.inds[mode], t.inds[mode], cut_low,
                                                cut_high - cut_low)]
    IN  IF spt_CheckError(r.result) THEN [result |-> r.result, dest |-> d1]
        ELSE CopyInds(t, d2, cut_low, cut_high, mode + 1, fail)

\* lines 128-145: the chunk [cut_low, cut_high) copied into dest
Materialize(t, st, fail) ==
    LET cut_low  == st.partial_low.data[t.nmodes]
        cut_high == st.partial_high.data[t.nmodes]
        n  == sptNewSparseTensor(t.nmodes, t.ndims, fail.site # "tensor")
        c  == CopyInds(t, n.tsr, cut_low, cut_high, 0, fail)
        r  == sptResizeVector(c.dest.values, cut_high - cut_low, fail.site # "values")
        d1 == [c.dest EXCEPT !.values = r.vec]
        d2 == [d1 EXCEPT !.values = Memcpy(d1.values, t.values, cut_low, cut_high - cut_low)]
        d3 == [d2 EXCEPT !.nnz = cut_high - cut_low]
    IN  IF spt_CheckError(n.result) THEN [result |-> n.result, dest |-> n.tsr]
        ELSE IF spt_CheckError(c.result) THEN [result |-> c.result, dest |-> c.dest]
        ELSE IF spt_CheckError(r.result) THEN [result |-> r.result, dest |-> d1]
        ELSE [result |-> "OK", dest |-> d3]

\* the backtrack loop of lines 148-184; m is the value of mode that the test
\* mode-- > 0 reads
RECURSIVE Backtrack(_, _, _)
\* a backtrack that stores the end of the next sibling and not its start
Backtrack_keepLow(t, st, m) ==
    IF ~(m > 0) THEN [st EXCEPT !.no_more = 1]
    ELSE
    LET mode == m - 1
        low  == st.partial_high.data[mode + 1]
        high == st.partial_high.data[mode]
    IN  IF low >= high
        THEN Backtrack(t, [st EXCEPT !.partial_low.len  = @ - 1,
                                     !.partial_high.len = @ - 1,
                                     !.index_step.len   = @ - 1], mode)
        ELSE
        LET i == FindCut(t.inds[mode].data, low, high, st.index_step.data[mode])
        IN  [st EXCEPT !.partial_high.data[mode + 1] = i]

\* a backtrack that returns NoMore's flag one chunk early: it raises the flag
\* as soon as the last mode is exhausted
Backtrack_earlyFlag(t, st, m) ==
    IF ~(m > 0) THEN [st EXCEPT !.no_more = 1]
    ELSE
    LET mode == m - 1
        low  == st.partial_high.data[mode + 1]
        high == st.partial_high.data[mode]
    IN  IF low >= high
        THEN [st EXCEPT !.no_more = 1]
        ELSE
        LET i == FindCut(t.inds[mode].data, low, high, st.index_step.data[mode])
        IN  [st EXCEPT !.partial_low.data[mode + 1]  = low,
                       !.partial_high.data[mode + 1] = i]

\* a backtrack that leaves the flag down when no range is left
Backtrack_noFlag(t, st, m) ==
    IF ~(m > 0) THEN st
    ELSE
    LET mode == m - 1
        low  == st.partial_high.data[mode + 1]
        high == st.partial_high.data[mode]
    IN  IF low >= high
        THEN Backtrack(t, [st EXCEPT !.partial_low.len  = @ - 1,
                                     !.partial_high.len = @ - 1,
                                     !.index_step.len   = @ - 1], mode)
        ELSE
        LET i == FindCut(t.inds[mode].data, low, high, st.index_step.data[mode])
        IN  [st EXCEPT !.partial_low.data[mode + 1]  = low,
                       !.partial_high.data[mode + 1] = i]

\* a backtrack that stores the next sibling without looking whether the
\* parent has anything left
Backtrack_noEmptyTest(t, st, m) ==
    IF ~(m > 0) THEN [st EXCEPT !.no_more = 1]
    ELSE
    LET mode == m - 1
        low  == st.partial_high.data[mode + 1]
        high == st.partial_high.data[mode]
    IN  IF low > high
        THEN Backtrack(t, [st EXCEPT !.partial_low.len  = @ - 1,
                                     !.partial_high.len = @ - 1,
                                     !.index_step.len   = @ - 1], mode)
        ELSE
        [st EXCEPT !.partial_low.data[mode + 1]  = low,
                   !.partial_high.data[mode + 1] = high]

\* a backtrack that pops the two range stacks and leaves the step stack
Backtrack_keepStep(t, st, m) ==
    IF ~(m > 0) THEN [st EXCEPT !.no_more = 1]
    ELSE
    LET mode == m - 1
        low  == st.partial_high.data[mode + 1]
        high == st.partial_high.data[mode]
    IN  IF low >= high
        THEN Backtrack(t, [st EXCEPT !.partial_low.len  = @ - 1,
                                     !.partial_high.len = @ - 1], mode)
        ELSE
        LET i == FindCut(t.inds[mode].data, low, high, st.index_step.data[mode])
        IN  [st EXCEPT !.partial_low.data[mode + 1]  = low,
                       !.partial_high.data[mode + 1] = i]

Backtrack(t, st, m) ==
    IF ~(m > 0) THEN [st EXCEPT !.no_more = 1]
    ELSE
    LET mode == m - 1
        low  == st.partial_high.data[mode + 1]
        high == st.partial_high.data[mode]
    IN  IF low >= high
        THEN Backtrack(t, [st EXCEPT !.partial_low.len  = @ - 1,
                                     !.partial_high.len = @ - 1,
                                     !.index_step.len   = @ - 1], mode)
        ELSE
        LET i == FindCut(t.inds[mode].data, low, high, st.index_step.data[mode])
        IN  [st EXCEPT !.partial_low.data[mode + 1]  = low,
                       !.partial_high.data[mode + 1] = i]

\* the guard of lines 70-72
Exhausted(st) == st.no_more # 0

\* a produce call that moves on to the next chunk when the copy fails
SplitLive_skipOnFailure(t, st, d, fail) ==
    LET dsc == Descend(t, st, st.partial_low.len - 1, fail)
        cut_low  == dsc.status.partial_low.data[t.nmodes]
        cut_high == dsc.status.partial_high.data[t.nmodes]
        mat == Materialize(t, dsc.status, fail)
    IN  IF dsc.result # "OK"
        THEN [result |-> dsc.result, status |-> dsc.status, dest |-> d,
              descended |-> dsc.status, cut_low |-> 0, cut_high |-> 0]
        ELSE [result |-> mat.result, status |-> Backtrack(t, dsc.status, t.nmodes),
              dest |-> mat.dest,
              descended |-> dsc.status, cut_low |-> cut_low, cut_high |-> cut_high]

\* lines 74-185: the descent, the copy and the backtrack of a produce call
\* on a status that is not exhausted
SplitLive(t, st, d, fail) ==
    LET dsc == Descend(t, st, st.partial_low.len - 1, fail)
        cut_low  == dsc.status.partial_low.data[t.nmodes]
        cut_high == dsc.status.partial_high.data[t.nmodes]
        mat == Materialize(t, dsc.status, fail)
    IN  IF dsc.result # "OK"
        THEN [result |-> dsc.result, status |-> dsc.status, dest |-> d,
              descended |-> dsc.status, cut_low |-> 0, cut_high |-> 0]
        ELSE IF mat.result # "OK"
        THEN [result |-> mat.result, status |-> dsc.status, dest |-> mat.dest,
              descended |-> dsc.status, cut_low |-> cut_low, cut_high |-> cut_high]
        ELSE [result |-> "OK", status |-> Backtrack(t, dsc.status, t.nmodes),
              dest |-> mat.dest,
              descended |-> dsc.status, cut_low |-> cut_low, cut_high |-> cut_high]

\* a produce call that lowers the exhaustion flag when it reports NoMore
Split_rearm(t, st, d, fail) ==
    IF Exhausted(st)
    THEN [result |-> "NO_MORE", status |-> [st EXCEPT !.no_more = 0], dest |-> d,
          descended |-> st, cut_low |-> 0, cut_high |-> 0]
    ELSE SplitLive(t, st, d, fail)

spt_SplitSparseTensor(t, st, d, fail) ==
    IF Exhausted(st)
    THEN [result |-> "NO_MORE", status |-> st, dest |-> d,
          descended |-> st, cut_low |-> 0, cut_high |-> 0]
    ELSE SplitLive(t, st, d, fail)

\* spt_FinishSplitSparseTensor: the status and its four stacks are released
spt_FinishSplitSparseTensor(st) == NoStatus

\* a finish that releases the borrowed tensor with the status
FinishReleases_withSource(st) ==
    {"cuts_by_mode.data", "partial_low.data", "partial_high.data", "index_step.data",
     "status", st.tsr}

\* the allocations that lines 189-193 hand to free: the buffers of the four
\* vectors and the status; line 188 only overwrites the status's pointer to
\* the tensor
FinishReleases(st) ==
    {"cuts_by_mode.data", "partial_low.data", "partial_high.data", "index_step.data",
     "status"}

(* ------------------------------- the state ----------------------------- *)
VARIABLES
    tsr,       \* the caller's source tensor
    cuts,      \* the caller's cuts_by_mode array
    status,    \* the split status the caller holds
    dest,      \* the caller's destination tensor
    result,    \* the return value of the last call
    pc,        \* "init", "started", "failed", "aborted", "finished"
    lastCall,  \* "none", "start", "split", "finish"
    chunks,    \* history: the ranges <<low, high>> of the chunks returned
    parts,     \* history: parts[m] counts the partitions made at mode m inside
               \* the range now at depth m of the stack
    noMore,    \* history: the number of produce calls that returned NoMore
    freed,     \* the allocations released so far; the tensor is "source"
    allocFailure, \* the allocation that failed in the last call, or "none"
    vs,        \* a vector of each kind driven on its own: the vectors, the
               \* last call, its arguments and what it returned
    second,    \* a second caller on the same tensor: its status, destination
               \* tensor, last return value, position and histories, and the
               \* ranges of a status driven alone, for comparison
    threads    \* two threads calling produce on the one status: the position
               \* and the local variables of each inside the call, whether
               \* two calls have overlapped, and how the process ended

vars == <<tsr, cuts, status, dest, result, pc, lastCall, chunks, parts, noMore,
          freed, allocFailure, second, vs, threads>>

\* the state of the split engine and of its callers
engineVars == <<tsr, cuts, status, dest, result, pc, lastCall, chunks, parts, noMore,
                freed, allocFailure, second, threads>>

\* the length and the capacity of a vector
Shape(vec) == [len |-> vec.len, cap |-> vec.cap]

\* no vector is driven on its own; pv and psv are the shapes of v and sv
\* before the last call
NoVs == [pc |-> "none", v |-> NoVec, sv |-> NoVec, op |-> "none",
         pv |-> Shape(NoVec), psv |-> Shape(NoVec), arg |-> 0, arglen |-> 0,
         rv |-> "OK", rsv |-> "OK", oob |-> FALSE]

\* the second caller when there is none
\* a thread outside a call, its local variables cleared
IdleThread ==
    [pc |-> "idle", mode |-> 0, low |-> 0, high |-> 0, i |-> 0, value |-> 0,
     vec |-> "none", len |-> 0, cut_low |-> 0, cut_high |-> 0,
     calls |-> 0, result |-> "OK"]

\* no thread calls produce
NoThreads == [th |-> [k \in {} |-> IdleThread], overlapped |-> FALSE, fault |-> "none"]

NoSecond == [status |-> NoStatus, dest |-> NoTensor, result |-> "OK", pc |-> "none",
             chunks |-> <<>>, solo |-> <<>>]

Init ==
    /\ tsr \in SourceTensors \cup {ScenarioA}
    /\ cuts \in [0..(tsr.nmodes - 1) -> 1..MaxCut]
    /\ status = NoStatus
    /\ dest = NoTensor
    /\ result = "OK"
    /\ pc = "init"
    /\ lastCall = "none"
    /\ chunks = <<>>
    /\ parts = [m \in 0..(tsr.nmodes - 1) |-> 0]
    /\ noMore = 0
    /\ freed = {}
    /\ allocFailure = "none"
    /\ second = NoSecond
    /\ vs = NoVs
    /\ threads = NoThreads

\* what a call that returned code can do: a call with undefined behaviour
\* ends the process ("CRASH"), or returns with nothing to rely on
Outcomes(code) == IF code = "UNDEFINED" THEN {"CRASH", "UNDEFINED"} ELSE {code}

\* where the caller is after start has done outcome
AfterStart(outcome) ==
    CASE outcome = "OK"        -> "started"
      [] outcome = "CRASH"     -> "crashed"
      [] outcome = "UNDEFINED" -> "undefined"
      [] OTHER                 -> "failed"

Start ==
    /\ pc = "init"
    /\ \E fail \in StartFails :
        \E r \in {spt_StartSplitSparseTensor(tsr, cuts, fail)} :
            \E outcome \in Outcomes(r.result) :
                /\ status' = r.status
                /\ result' = outcome
                /\ pc' = AfterStart(outcome)
                /\ allocFailure' = IF outcome \in {"OS_ERROR", "CRASH", "UNDEFINED"}
                                   THEN fail.site ELSE "none"
    /\ lastCall' = "start"
    /\ UNCHANGED <<tsr, cuts, dest, chunks, parts, noMore, freed, second, vs, threads>>

\* the partitions counted once a produce call has descended from st0 to sd
PartsDescended(st0, sd) ==
    [m \in DOMAIN parts |->
        IF m >= sd.index_step.len THEN 0
        ELSE IF m < st0.index_step.len THEN parts[m] ELSE 1]

\* the partitions counted once a produce call has backtracked from sd to st1:
\* the range it stored is one more partition at the mode it stopped at
PartsBacktracked(st0, sd, st1) ==
    [m \in DOMAIN parts |->
        IF m >= st1.index_step.len THEN 0
        ELSE IF m = st1.index_step.len - 1 THEN PartsDescended(st0, sd)[m] + 1
        ELSE PartsDescended(st0, sd)[m]]

Split ==
    /\ pc = "started"
    /\ Exhausted(status) => noMore < MaxNoMore
    /\ \E fail \in SplitFails :
        \E r \in {spt_SplitSparseTensor(tsr, status, dest, fail)} :
            /\ status' = r.status
            /\ dest' = r.dest
            /\ result' = r.result
            /\ pc' = IF r.result = "ASSERT" THEN "aborted" ELSE "started"
            /\ chunks' = IF r.result = "OK"
                         THEN Append(chunks, <<r.cut_low, r.cut_high>>)
                         ELSE chunks
            /\ parts' = IF r.result = "NO_MORE" THEN parts
                        ELSE IF r.result = "OK"
                        THEN PartsBacktracked(status, r.descended, r.status)
                        ELSE PartsDescended(status, r.descended)
            /\ noMore' = IF r.result = "NO_MORE" THEN noMore + 1 ELSE noMore
            /\ allocFailure' = IF r.result = "OS_ERROR" THEN fail.site ELSE "none"
    /\ lastCall' = "split"
    /\ UNCHANGED <<tsr, cuts, freed, second, vs, threads>>

\* the histories are those of the status: they end with it
Finish ==
    /\ pc = "started"
    /\ status' = spt_FinishSplitSparseTensor(status)
    /\ pc' = "finished"
    /\ lastCall' = "finish"
    /\ chunks' = <<>>
    /\ parts' = [m \in DOMAIN parts |-> 0]
    /\ noMore' = 0
    /\ freed' = freed \cup FinishReleases(status)
    /\ allocFailure' = "none"
    /\ UNCHANGED <<tsr, cuts, dest, result, second, vs, threads>>

Next == Start \/ Split \/ Finish

Spec == Init /\ [][Next]_vars

(* ---------------------- vectors driven on their own -------------------- *)
\* An sptVector v and an sptSizeVector sv receive the same calls; ok = FALSE
\* is malloc or realloc returning NULL when the call asks for memory.

\* the value appended
AppendValue == 7

\* the vectors appended to another: len cells written, the rest unwritten
AppendVecs ==
    {VecOf(n, [i \in 0..(n - 1) |-> AppendValue]) : n \in 0..MaxAppendLen}

InitVec ==
    /\ tsr = ScenarioA
    /\ cuts = [m \in 0..(tsr.nmodes - 1) |-> 1]
    /\ status = NoStatus
    /\ dest = NoTensor
    /\ result = "OK"
    /\ pc = "init"
    /\ lastCall = "none"
    /\ chunks = <<>>
    /\ parts = [m \in 0..(tsr.nmodes - 1) |-> 0]
    /\ noMore = 0
    /\ freed = {}
    /\ allocFailure = "none"
    /\ second = NoSecond
    /\ vs = [NoVs EXCEPT !.pc = "init"]
    /\ threads = NoThreads

\* sptNewVector(&v, len, cap) and sptNewSizeVector(&sv, len, cap)
VecNew ==
    /\ vs.pc = "init"
    /\ \E len \in 0..MaxCap, cap \in 0..MaxCap, ok \in BOOLEAN :
        \E r \in {sptNewVector(len, cap, ok)}, rs \in {sptNewSizeVector(len, cap, ok)} :
            vs' = [vs EXCEPT !.pc = IF ok THEN "live" ELSE "failed",
                             !.op = "new", !.arg = len, !.arglen = 0,
                             !.pv = Shape(vs.v), !.psv = Shape(vs.sv),
                             !.v = r.vec, !.sv = rs.vec,
                             !.rv = r.result, !.rsv = rs.result]
    /\ UNCHANGED engineVars

\* sptAppendVector(&v, value) and sptAppendSizeVector(&sv, value)
VecAppend ==
    /\ vs.pc = "live"
    /\ \E ok \in BOOLEAN :
        \E r \in {sptAppendVector(vs.v, AppendValue, ok)},
           rs \in {sptAppendSizeVector(vs.sv, AppendValue, ok)} :
            /\ r.vec.cap <= MaxCap /\ rs.vec.cap <= MaxCap
            /\ vs' = [vs EXCEPT !.op = "append", !.arg = AppendValue, !.arglen = 1,
                                !.pv = Shape(vs.v), !.psv = Shape(vs.sv),
                                !.v = r.vec, !.sv = rs.vec,
                                !.rv = r.result, !.rsv = rs.result]
    /\ UNCHANGED engineVars

\* sptAppendVectorWithVector(&v, &a) and sptAppendSizeVectorWithVector(&sv, &a);
\* a cell written past the capacity of v is undefined behaviour: the call
\* returns with memory outside the vector overwritten, or the process ends
VecAppendWithVector ==
    /\ vs.pc = "live"
    /\ \E a \in AppendVecs, ok \in BOOLEAN :
        \E r \in {sptAppendVectorWithVector(vs.v, a, ok)},
           rs \in {sptAppendSizeVectorWithVector(vs.sv, a, ok)} :
            /\ r.vec.cap <= MaxCap /\ rs.vec.cap <= MaxCap
            /\ \E outcome \in IF r.oob \/ rs.oob THEN {"OK", "CRASH"} ELSE {"OK"} :
                vs' = [vs EXCEPT !.pc = IF outcome = "CRASH" THEN "crashed" ELSE @,
                                 !.op = "appendvec", !.arg = a.cap, !.arglen = a.len,
                                 !.pv = Shape(vs.v), !.psv = Shape(vs.sv),
                                 !.v = r.vec, !.sv = rs.vec,
                                 !.rv = IF outcome = "CRASH" THEN "CRASH" ELSE r.result,
                                 !.rsv = IF outcome = "CRASH" THEN "CRASH" ELSE rs.result,
                                 !.oob = @ \/ r.oob \/ rs.oob]
    /\ UNCHANGED engineVars

\* sptResizeVector(&v, size) and sptResizeSizeVector(&sv, size)
VecResize ==
    /\ vs.pc = "live"
    /\ \E size \in 0..MaxCap, ok \in BOOLEAN :
        \E r \in {sptResizeVector(vs.v, size, ok)},
           rs \in {sptResizeSizeVector(vs.sv, size, ok)} :
            vs' = [vs EXCEPT !.op = "resize", !.arg = size, !.arglen = 0,
                             !.pv = Shape(vs.v), !.psv = Shape(vs.sv),
                             !.v = r.vec, !.sv = rs.vec,
                             !.rv = r.result, !.rsv = rs.result]
    /\ UNCHANGED engineVars

NextVec == VecNew \/ VecAppend \/ VecAppendWithVector \/ VecResize

SpecVec == InitVec /\ [][NextVec]_vars

(* ------------------- a caller that calls until NoMore ------------------ *)
\* the caller releases the engine once it has been told NoMore
FinishAfterNoMore == pc = "started" /\ result = "NO_MORE" /\ Finish

NextLive == Start \/ Split \/ FinishAfterNoMore

InitLive == Init /\ tsr.nnz <= MaxNnzLive

SpecLive == InitLive /\ [][NextLive]_vars

\* the caller may make a produce call
CanSplit == pc = "started" /\ (Exhausted(status) => noMore < MaxNoMore)

\* a step that is a produce call whose allocations succeed
SplitSucceeds == pc = "started" /\ lastCall' = "split" /\ result' # "OS_ERROR"

\* the caller keeps calling and memory is not refused for ever: weak
\* fairness of the produce calls whose allocations succeed
CallerKeepsCalling == []<>(~CanSplit) \/ []<><<SplitSucceeds>>_vars

(* ---------------------- two statuses on one tensor --------------------- *)
\* the ranges a status returns when it is driven alone from st to exhaustion
\* with every allocation succeeding, after the ranges acc
RECURSIVE SoloRun(_, _, _)
SoloRun(t, st, acc) ==
    IF Exhausted(st) THEN acc
    ELSE LET r == spt_SplitSparseTensor(t, st, NoTensor, [site |-> "none"])
         IN  SoloRun(t, r.status, Append(acc, <<r.cut_low, r.cut_high>>))

SoloChunks(t, cuts0) ==
    SoloRun(t, spt_StartSplitSparseTensor(t, cuts0, [site |-> "none"]).status, <<>>)

\* the tensors that two statuses share: sorted, not empty, two modes
SharedTensors ==
    {t \in SourceTensors : t.nmodes = 2 /\ t.sortkey = 1 /\ t.nnz \in 1..MaxNnzTwo}

\* the cut counts of the two statuses: a cut count above nnz cuts as nnz does
InitTwo ==
    /\ tsr \in SharedTensors
    /\ cuts \in [0..(tsr.nmodes - 1) -> 1..(IF tsr.nnz < MaxCut THEN tsr.nnz ELSE MaxCut)]
    /\ status = NoStatus
    /\ dest = NoTensor
    /\ result = "OK"
    /\ pc = "init"
    /\ lastCall = "none"
    /\ chunks = <<>>
    /\ parts = [m \in 0..(tsr.nmodes - 1) |-> 0]
    /\ noMore = 0
    /\ freed = {}
    /\ allocFailure = "none"
    /\ second = [NoSecond EXCEPT !.pc = "init", !.solo = SoloChunks(tsr, cuts)]
    /\ vs = NoVs
    /\ threads = NoThreads

\* the second caller starts its own status on the same tensor and cut counts
StartSecond ==
    /\ second.pc = "init"
    /\ \E fail \in StartFails :
        \E r \in {spt_StartSplitSparseTensor(tsr, cuts, fail)} :
            \E outcome \in Outcomes(r.result) :
                second' = [second EXCEPT !.status = r.status,
                                         !.result = outcome,
                                         !.pc = AfterStart(outcome)]
    /\ UNCHANGED <<tsr, cuts, status, dest, result, pc, lastCall, chunks, parts, noMore,
                   freed, allocFailure, vs, threads>>

\* the second caller asks its status for the next chunk
SplitSecond ==
    /\ second.pc = "started"
    /\ \E fail \in SplitFails :
        \E r \in {spt_SplitSparseTensor(tsr, second.status, second.dest, fail)} :
            second' = [second EXCEPT
                          !.status = r.status,
                          !.dest = r.dest,
                          !.result = r.result,
                          !.pc = IF r.result = "ASSERT" THEN "aborted" ELSE "started",
                          !.chunks = IF r.result = "OK"
                                     THEN Append(@, <<r.cut_low, r.cut_high>>) ELSE @]
    /\ UNCHANGED <<tsr, cuts, status, dest, result, pc, lastCall, chunks, parts, noMore,
                   freed, allocFailure, vs, threads>>

NextTwo == Start \/ Split \/ Finish \/ StartSecond \/ SplitSecond

SpecTwo == InitTwo /\ [][NextTwo]_vars

(* ------------------------------- claims -------------------------------- *)
NumChunks == Len(chunks)

ChunkLow(j) == chunks[j][1]

ChunkHigh(j) == chunks[j][2]

\* the chunks returned so far end at the last nonzero
Covered == NumChunks > 0 /\ ChunkHigh(NumChunks) = tsr.nnz

\* the last call was a produce call that returned NoMore
ReturnedNoMore == pc = "started" /\ lastCall = "split" /\ result = "NO_MORE"

\* the last call was a produce call that returned a chunk
ReturnedChunk == pc = "started" /\ lastCall = "split" /\ result = "OK"

\* C1: the chunks returned up to the first NoMore are the ranges
\* [l1,h1), ..., [lk,hk) with l1 = 0, h_j = l_(j+1) and hk = nnz, each of
\* them non-empty: they cover [0, nnz) in increasing order with no gap and
\* no overlap.
C1_Coverage ==
    /\ \A j \in 1..NumChunks : ChunkLow(j) < ChunkHigh(j)
    /\ NumChunks > 0 => ChunkLow(1) = 0
    /\ \A j \in 1..(NumChunks - 1) : ChunkHigh(j) = ChunkLow(j + 1)
    /\ ReturnedNoMore => Covered

C1_Witness == ReturnedNoMore /\ NumChunks >= 3 /\ Covered

\* C2: a produce call returns NoMore exactly when the chunks returned before
\* it already cover [0, nnz); so the call that returns the chunk ending at
\* nnz succeeds (it only raises the flag) and the next call is the first to
\* return NoMore.
C2_NoMoreExactlyWhenCovered ==
    [][(pc = "started" /\ pc' = "started")
          => /\ (result' = "NO_MORE") <=> Covered
             /\ (result' = "OK" /\ Covered') => (status'.no_more = 1 /\ ~Covered)]_vars

C2_Witness ==
    /\ ReturnedChunk /\ Covered /\ status.no_more = 1
    /\ NumChunks >= 2 /\ noMore = 0

\* C3: once a produce call has returned NoMore, every later produce call
\* returns NoMore and leaves the status and the destination tensor as they
\* were.
C3_NoMoreIsStable ==
    [][(ReturnedNoMore /\ pc' = "started")
          => (result' = "NO_MORE" /\ status' = status /\ dest' = dest)]_vars

C3_Witness == ReturnedNoMore /\ noMore = 2 /\ dest.nnz > 0

\* the state a failed start leaves: an error code and no status
StartFailedWith(code) == pc = "failed" /\ result = code /\ status = NoStatus

\* C4 as stated: start fails with NoMore when nnz = 0 and with ValueError
\* when the sortkey is not nmodes-1, and creates no status in either case.
C4_Original ==
    lastCall = "start" =>
        /\ tsr.nnz = 0 => StartFailedWith("NO_MORE")
        /\ tsr.sortkey # tsr.nmodes - 1 => StartFailedWith("VALUE_ERROR")

\* C4 as amended: start fails with NoMore when nnz = 0, and with ValueError
\* when nnz > 0 and the sortkey is not nmodes-1; no status is created in
\* either case.
C4_StartErrors ==
    lastCall = "start" =>
        /\ tsr.nnz = 0 => StartFailedWith("NO_MORE")
        /\ (tsr.nnz > 0 /\ tsr.sortkey # tsr.nmodes - 1) => StartFailedWith("VALUE_ERROR")

C4_Witness == StartFailedWith("VALUE_ERROR") /\ tsr.nnz > 0 /\ tsr.sortkey # tsr.nmodes - 1

\* C5: after a successful start the status holds the one level [0, nnz), an
\* empty index_step stack, a copy of the nmodes cut counts and a cleared
\* exhaustion flag.
C5_StartState ==
    (lastCall = "start" /\ result = "OK") =>
        /\ status.exists
        /\ status.partial_low.len = 1 /\ status.partial_low.data[0] = 0
        /\ status.partial_high.len = 1 /\ status.partial_high.data[0] = tsr.nnz
        /\ status.index_step.len = 0
        /\ status.cuts_by_mode.len = tsr.nmodes
        /\ \A m \in 0..(tsr.nmodes - 1) : status.cuts_by_mode.data[m] = cuts[m]
        /\ status.no_more = 0

C5_Witness ==
    /\ lastCall = "start" /\ result = "OK" /\ pc = "started"
    /\ tsr.nmodes = 2 /\ tsr.nnz >= 2 /\ cuts[0] # cuts[1]

\* C6: a chunk returned for the range [low, high) has the source's mode
\* count and dimensions, nnz = high - low, and cell k of each of its index
\* arrays and of its value array equals cell low + k of the source's.
C6_ChunkContents ==
    ReturnedChunk =>
        LET low  == ChunkLow(NumChunks)
            high == ChunkHigh(NumChunks)
        IN  /\ dest.nmodes = tsr.nmodes
            /\ dest.ndims = tsr.ndims
            /\ dest.nnz = high - low
            /\ \A m \in 0..(tsr.nmodes - 1) :
                   /\ dest.inds[m].len = high - low
                   /\ \A k \in 0..(high - low - 1) :
                          dest.inds[m].data[k] = tsr.inds[m].data[low + k]
            /\ dest.values.len = high - low
            /\ \A k \in 0..(high - low - 1) :
                   dest.values.data[k] = tsr.values.data[low + k]

C6_Witness ==
    /\ ReturnedChunk /\ tsr.nmodes = 2
    /\ ChunkLow(NumChunks) > 0 /\ dest.nnz >= 2

\* the number of distinct mode-m index values of the source in [low, high)
Distinct(m, low, high) == Cardinality({tsr.inds[m].data[i] : i \in low..(high - 1)})

\* the modes whose partitioning is on the stack: mode m partitions the range
\* at depth m, and the partition it is at is the range at depth m + 1
ActiveModes == IF pc = "started" THEN 0..(status.index_step.len - 1) ELSE {}

ParentLow(m) == status.partial_low.data[m]

ParentHigh(m) == status.partial_high.data[m]

\* C7 as stated: inside every range that a mode partitions, the number of
\* partitions made never exceeds the number of distinct index values of
\* that mode in the range.
C7_Original ==
    \A m \in ActiveModes : parts[m] <= Distinct(m, ParentLow(m), ParentHigh(m))

\* C8: inside every range that mode m partitions, the number of partitions
\* made never exceeds cuts_by_mode[m].
C8_AtMostCuts ==
    \A m \in ActiveModes : parts[m] <= status.cuts_by_mode.data[m]

C8_Witness ==
    \E m \in ActiveModes :
        /\ parts[m] = status.cuts_by_mode.data[m]
        /\ parts[m] >= 2
        /\ Distinct(m, ParentLow(m), ParentHigh(m)) > parts[m]

\* C9 as stated: when cuts_by_mode[m] exceeds the number of distinct mode-m
\* index values in the range that mode m partitions, the index step of that
\* range is 1 and the partition holds exactly one distinct mode-m value.
C9_Original ==
    \A m \in ActiveModes :
        status.cuts_by_mode.data[m] > Distinct(m, ParentLow(m), ParentHigh(m))
            => /\ status.index_step.data[m] = 1
               /\ Distinct(m, ParentLow(m + 1), ParentHigh(m + 1)) = 1

\* [low, high) is one maximal run of equal mode-0 index
Mode0Run(low, high) ==
    /\ low < high
    /\ \A i \in low..(high - 1) : tsr.inds[0].data[i] = tsr.inds[0].data[low]
    /\ low = 0 \/ tsr.inds[0].data[low - 1] # tsr.inds[0].data[low]
    /\ high = tsr.nnz \/ tsr.inds[0].data[high] # tsr.inds[0].data[high - 1]

\* the cut counts of C10: as many cuts at mode 0 as it has distinct values,
\* or more, and one cut at every other mode
OneChunkPerMode0Value ==
    /\ cuts[0] >= Distinct(0, 0, tsr.nnz)
    /\ \A m \in 1..(tsr.nmodes - 1) : cuts[m] = 1

\* C10: with cuts_by_mode[0] at least the number of distinct mode-0 values
\* and cuts_by_mode[m] = 1 for m >= 1, every chunk returned holds all the
\* nonzeros of one mode-0 value, the chunks come in ascending order of that
\* value, and at exhaustion there is one chunk for each distinct value.
C10_OneChunkPerValue ==
    (pc = "started" /\ OneChunkPerMode0Value) =>
        /\ \A j \in 1..NumChunks : Mode0Run(ChunkLow(j), ChunkHigh(j))
        /\ \A j \in 1..(NumChunks - 1) :
               tsr.inds[0].data[ChunkLow(j)] < tsr.inds[0].data[ChunkLow(j + 1)]
        /\ status.no_more = 1 => NumChunks = Distinct(0, 0, tsr.nnz)

C10_Witness ==
    /\ tsr = ScenarioA /\ cuts[0] = 3 /\ cuts[1] = 1
    /\ pc = "started" /\ status.no_more = 1
    /\ NumChunks = 3
    /\ \A j \in 1..3 : ChunkHigh(j) - ChunkLow(j) = 2

\* C11: no call of the engine changes the source tensor (mode count,
\* dimensions, sortkey, nnz, index arrays, value array) or releases it;
\* finish releases the status and the buffers of its four stacks, and
\* nothing else.
C11_SourceUntouched ==
    [][/\ tsr' = tsr
       /\ "source" \notin freed'
       /\ pc' = "finished" =>
              freed' = {"cuts_by_mode.data", "partial_low.data", "partial_high.data",
                        "index_step.data", "status"}]_vars

C11_Witness ==
    /\ pc = "finished" /\ freed # {} /\ status = NoStatus
    /\ dest.nnz > 0 /\ tsr.nnz > dest.nnz

IsPrefix(a, b) == Len(a) <= Len(b) /\ \A j \in 1..Len(a) : a[j] = b[j]

C13_Terminates ==
    /\ [](pc = "started" =>
            /\ NumChunks <= tsr.nnz
            /\ ReturnedNoMore => NumChunks >= 1
            /\ \A j \in 1..NumChunks : ChunkLow(j) < ChunkHigh(j))
    /\ CallerKeepsCalling => (pc = "started" ~> ReturnedNoMore)

C13_Witness ==
    /\ ReturnedNoMore
    /\ NumChunks = tsr.nnz /\ tsr.nnz >= 3

\* nonzero a of tensor t is not after nonzero b in the lexicographic order of
\* the index tuples, mode 0 first
LexLeq(t, a, b) ==
    \/ \A m \in 0..(t.nmodes - 1) : t.inds[m].data[a] = t.inds[m].data[b]
    \/ \E m \in 0..(t.nmodes - 1) :
          /\ t.inds[m].data[a] < t.inds[m].data[b]
          /\ \A k \in 0..(m - 1) : t.inds[k].data[a] = t.inds[k].data[b]

LexSorted(t) == \A k \in 0..(t.nnz - 2) : LexLeq(t, k, k + 1)

\* C14: the source being sorted lexicographically, the nonzeros of every
\* chunk returned are in lexicographic order over modes 0..nmodes-1.
C14_ChunkSorted ==
    (LexSorted(tsr) /\ ReturnedChunk) => LexSorted(dest)

C14_Witness ==
    /\ LexSorted(tsr) /\ ReturnedChunk /\ tsr.nmodes = 2 /\ dest.nnz >= 3
    /\ dest.inds[0].data[0] < dest.inds[0].data[2]
    /\ dest.inds[1].data[0] > dest.inds[1].data[1]

\* the last call on a vector of shape pre had to grow the backing store: the
\* length it asks for does not fit the capacity (there is none before New)
MustGrow(pre) ==
    CASE vs.op = "new"       -> TRUE
      [] vs.op = "append"    -> pre.len + 1 > pre.cap
      [] vs.op = "appendvec" -> pre.len + vs.arglen > pre.cap
      [] vs.op = "resize"    -> vs.arg > pre.cap
      [] OTHER               -> FALSE

\* the last call on the sptVector asked malloc or realloc for memory
AsksMemory ==
    CASE vs.op = "new"       -> TRUE
      [] vs.op = "append"    -> vs.pv.cap <= vs.pv.len
      [] vs.op = "appendvec" -> vs.pv.cap <= vs.pv.len
      [] vs.op = "resize"    -> (IF vs.arg < 2 THEN 2 ELSE vs.arg) # vs.pv.cap
      [] OTHER               -> FALSE

\* the last call on the sptSizeVector asked malloc or realloc for memory
AsksMemorySize ==
    CASE vs.op = "new"       -> TRUE
      [] vs.op = "append"    -> vs.psv.cap <= vs.psv.len
      [] vs.op = "appendvec" -> vs.psv.cap <= vs.psv.len + vs.arglen
      [] vs.op = "resize"    -> (IF vs.arg < 2 THEN 2 ELSE vs.arg) # vs.psv.cap
      [] OTHER               -> FALSE

\* C15 as stated: a vector call returns an allocation error only when it
\* must grow the backing store.
C15_Original ==
    /\ vs.rv = "OS_ERROR" => MustGrow(vs.pv)
    /\ vs.rsv = "OS_ERROR" => MustGrow(vs.psv)

\* C15, amended: a vector call returns an allocation error only when it asks
\* for memory, which New always does, Append does when cap <= len,
\* AppendWithVector does when cap <= len (sptVector) or cap <= len + the
\* appended length (sptSizeVector), and Resize does whenever max(size, 2)
\* differs from the capacity, a smaller size included; a call that asks for
\* no memory never returns an error.
C15_ErrorOnlyWhenAllocating ==
    /\ vs.rv = "OS_ERROR" => AsksMemory
    /\ vs.rsv = "OS_ERROR" => AsksMemorySize
    /\ (vs.op # "none" /\ ~AsksMemory) => vs.rv \in {"OK", "CRASH"}
    /\ (vs.op # "none" /\ ~AsksMemorySize) => vs.rsv \in {"OK", "CRASH"}

C15_Witness ==
    /\ vs.op = "resize" /\ vs.arg >= 2 /\ vs.arg < vs.pv.cap /\ vs.arg < vs.psv.cap
    /\ vs.rv = "OS_ERROR" /\ vs.rsv = "OS_ERROR"
    /\ vs.v.cap = vs.pv.cap /\ vs.sv.cap = vs.psv.cap

\* C16 as stated: whichever allocation of start fails, the allocation of the
\* status included, start returns the allocation error to its caller and
\* creates nothing more.
C16_Original ==
    (lastCall = "start" /\ allocFailure # "none") =>
        /\ result = "OS_ERROR"
        /\ pc = "failed"

\* C17 as stated: in every range [low, high) that a descend step of mode m
\* partitions, the mode-m indices of the source are in non-decreasing order,
\* and the count of the descend step, value changes plus one, is the number
\* of distinct mode-m index values of the range.
C17_Original ==
    \A m \in ActiveModes :
        /\ \A i \in ParentLow(m)..(ParentHigh(m) - 2) :
               tsr.inds[m].data[i] <= tsr.inds[m].data[i + 1]
        /\ CountIndices(tsr.inds[m].data, ParentLow(m), ParentHigh(m))
               = Distinct(m, ParentLow(m), ParentHigh(m))

\* C18: every range on the stack is non-empty and lies inside the range one
\* level up, and the assertion low < high of the descend loop never fails.
C18_NestedRanges ==
    /\ pc # "aborted"
    /\ pc = "started" =>
        /\ status.partial_low.len = status.partial_high.len
        /\ status.partial_low.data[0] < status.partial_high.data[0]
        /\ \A d \in 1..(status.partial_low.len - 1) :
               /\ status.partial_low.data[d - 1] <= status.partial_low.data[d]
               /\ status.partial_low.data[d] < status.partial_high.data[d]
               /\ status.partial_high.data[d] <= status.partial_high.data[d - 1]

C18_Witness ==
    /\ pc = "started" /\ status.partial_low.len = 3
    /\ status.partial_low.data[0] < status.partial_low.data[1]
    /\ status.partial_low.data[1] < status.partial_low.data[2]
    /\ status.partial_high.data[1] < status.partial_high.data[0]

\* C19: a boundary that the engine places at mode m strictly inside the
\* parent range lies where the mode-m index changes; a child range that ends
\* before its parent does holds exactly index_step[m] maximal runs of equal
\* mode-m index.
C19_CutsAtTransitions ==
    \A m \in ActiveModes :
        LET inds == tsr.inds[m].data
            low  == status.partial_low.data[m + 1]
            high == status.partial_high.data[m + 1]
        IN  /\ low > ParentLow(m) => inds[low] # inds[low - 1]
            /\ high < ParentHigh(m) =>
                   /\ inds[high] # inds[high - 1]
                   /\ CountIndices(inds, low, high) = status.index_step.data[m]

C19_Witness ==
    \E m \in ActiveModes :
        /\ status.partial_high.data[m + 1] < ParentHigh(m)
        /\ status.index_step.data[m] >= 2
        /\ status.partial_high.data[m + 1] - status.partial_low.data[m + 1] >= 3

\* every cut count is 1
AllCutsOne == \A m \in 0..(tsr.nmodes - 1) : cuts[m] = 1

\* C20: with cuts_by_mode[m] = 1 for every mode the engine returns one
\* chunk, the range [0, nnz) holding the whole source, and NoMore on the
\* call after it; and at any level where the mode has one distinct value in
\* the parent range, the mode makes one partition, equal to the parent.
C20_SingleChunk ==
    /\ (pc = "started" /\ AllCutsOne) =>
          /\ NumChunks <= 1
          /\ \A j \in 1..NumChunks : ChunkLow(j) = 0 /\ ChunkHigh(j) = tsr.nnz
          /\ ReturnedChunk =>
                /\ dest.nnz = tsr.nnz
                /\ \A m \in 0..(tsr.nmodes - 1) : \A k \in 0..(tsr.nnz - 1) :
                       dest.inds[m].data[k] = tsr.inds[m].data[k]
                /\ \A k \in 0..(tsr.nnz - 1) : dest.values.data[k] = tsr.values.data[k]
                /\ spt_SplitSparseTensor(tsr, status, dest, [site |-> "none"]).result
                       = "NO_MORE"
          /\ ReturnedNoMore => NumChunks = 1
    /\ \A m \in ActiveModes :
          Distinct(m, ParentLow(m), ParentHigh(m)) = 1 =>
              /\ status.partial_low.data[m + 1] = ParentLow(m)
              /\ status.partial_high.data[m + 1] = ParentHigh(m)
              /\ parts[m] = 1

C20_Witness ==
    /\ ReturnedChunk /\ AllCutsOne /\ tsr.nmodes = 2
    /\ NumChunks = 1 /\ dest.nnz = tsr.nnz /\ tsr.nnz >= 3
    /\ Distinct(0, 0, tsr.nnz) >= 2 /\ Distinct(1, 0, tsr.nnz) >= 2
    /\ status.no_more = 1

\* the passes of the descend loop that a produce call on status st makes
\* from the given mode on, allocations succeeding: the mode of each pass,
\* the status it starts from and the status it ends with
RECURSIVE DescendPasses(_, _, _)
DescendPasses(t, st, mode) ==
    IF ~(mode < t.nmodes) THEN {}
    ELSE LET r == DescendStep(t, st, mode, [site |-> "none"])
         IN  {[mode |-> mode, before |-> st, after |-> r.status]}
                 \cup (IF r.result # "OK" THEN {}
                       ELSE DescendPasses(t, r.status, mode + 1))

\* C21: between the calls on a live status the range stacks have one level
\* more than the step stack and from 1 to nmodes + 1 levels, level 0 is
\* (0, nnz), and every pass of the descend loop for mode m starts with m
\* steps on the step stack, so that index_step[m] is the step it appends.
C21_StacksInStep ==
    pc = "started" =>
        /\ status.partial_low.len = status.partial_high.len
        /\ status.partial_low.len = status.index_step.len + 1
        /\ status.partial_low.len >= 1
        /\ status.partial_low.len <= tsr.nmodes + 1
        /\ status.partial_low.data[0] = 0
        /\ status.partial_high.data[0] = tsr.nnz
        /\ ~Exhausted(status) =>
              \A p \in DescendPasses(tsr, status, status.partial_low.len - 1) :
                  /\ p.before.index_step.len = p.mode
                  /\ p.before.partial_low.len = p.mode + 1
                  /\ p.after.index_step.len = p.mode + 1
                  /\ p.after.index_step.data[p.mode] =
                         IndexStep(CountIndices(tsr.inds[p.mode].data,
                                                p.before.partial_low.data[p.mode],
                                                p.before.partial_high.data[p.mode]),
                                   status.cuts_by_mode.data[p.mode])

C21_Witness ==
    /\ ReturnedChunk /\ tsr.nmodes = 2 /\ NumChunks >= 2
    /\ status.partial_low.len = 2 /\ status.index_step.len = 1
    /\ status.index_step.data[1] # Uninit
    /\ DescendPasses(tsr, status, 1) # {}

\* a vector that keeps its shape: at least two cells, no more used than held
WellFormed(vec) == vec.cap >= 2 /\ vec.len <= vec.cap

\* C22: after any sequence of New, Append, AppendWithVector and Resize on an
\* sptVector and an sptSizeVector, each has cap >= 2 and len <= cap and no
\* call has written a cell at an index >= cap.
C22_Original ==
    vs.pc \in {"live", "crashed"} =>
        /\ WellFormed(vs.v)
        /\ WellFormed(vs.sv)
        /\ ~vs.oob

\* the cells of a vector in use, in order, as far as the vector holds them
Elements(vec) ==
    [i \in 0..(vec.len - 1) |-> IF i \in DOMAIN vec.data THEN vec.data[i] ELSE Uninit]

\* C23: driven by the same New, Append, AppendWithVector and Resize calls
\* with the same lengths and capacities, the sptVector and the sptSizeVector
\* have the same len, the same cap and the same elements after every call,
\* and every call returns the same code on both.
C23_Original ==
    vs.pc = "live" =>
        /\ vs.v.len = vs.sv.len
        /\ vs.v.cap = vs.sv.cap
        /\ Elements(vs.v) = Elements(vs.sv)
        /\ vs.rv = vs.rsv

\* the allocations of lines 128-145: the destination tensor and its arrays
MaterializeSites == {"tensor", "inds", "values"}

\* the last call was a produce call refused memory while it built its chunk
FailedMaterializing ==
    /\ pc = "started" /\ lastCall = "split" /\ result = "OS_ERROR"
    /\ allocFailure \in MaterializeSites

\* the range on top of the range stacks of a fully descended status
TopLow  == status.partial_low.data[tsr.nmodes]
TopHigh == status.partial_high.data[tsr.nmodes]

\* C24: a produce call refused memory while it builds its chunk leaves the
\* status descended on the range it would have returned, which follows the
\* last chunk returned; the next call that succeeds returns exactly that
\* range, and the chunks returned still cover [0, nnz) when NoMore comes.
C24_SameChunkAfterFailure ==
    /\ [](FailedMaterializing =>
            /\ status.partial_low.len = tsr.nmodes + 1
            /\ status.no_more = 0
            /\ TopLow < TopHigh
            /\ TopLow = IF NumChunks = 0 THEN 0 ELSE ChunkHigh(NumChunks))
    /\ [](ReturnedNoMore => Covered)
    /\ [][(pc = "started" /\ FailedMaterializing')
             => \E r \in {spt_SplitSparseTensor(tsr, status, dest, [site |-> "none"])} :
                    /\ r.result = "OK"
                    /\ TopLow' = r.cut_low
                    /\ TopHigh' = r.cut_high
                    /\ chunks' = chunks]_vars
    /\ [][(FailedMaterializing /\ lastCall' = "split" /\ result' = "OK")
             => /\ chunks' = Append(chunks, <<TopLow, TopHigh>>)
                /\ dest'.nnz = TopHigh - TopLow]_vars

C24_Witness ==
    /\ FailedMaterializing
    /\ NumChunks >= 1 /\ TopHigh < tsr.nnz
    /\ spt_SplitSparseTensor(tsr, status, dest, [site |-> "none"]).cut_low
           = ChunkHigh(NumChunks)

(* ------------------ two threads on one status, step by step ------------- *)
\* spt_SplitSparseTensor read by read and write by write: a thread is at one
\* of the places below and each step does the one access to the status that
\* the place names, with the computation on local variables that follows it.

\* the largest size_t, 2^64 - 1 in the build: it stands here above every
\* length, capacity and index, and size_t arithmetic wraps at it
SizeMax == 65535
SizeDec(x) == IF x = 0 THEN SizeMax ELSE x - 1
\* an increment that is lost: the length is written back as it was read
SizeInc_lost(x) == x

SizeInc(x) == IF x = SizeMax THEN 0 ELSE x + 1

\* vec->data[k] is a cell of the allocation that has been written
Readable(vec, k) == k \in DOMAIN vec.data /\ vec.data[k] # Uninit

\* what a step gives: the status, the thread, and what the call returned if
\* the step ended it ("UNDEFINED" is undefined behaviour, "ASSERT" line 77)
Moved(st, th) == [status |-> st, th |-> th, ret |-> "none", chunk |-> <<>>]
Faulted(st, th, code) == [status |-> st, th |-> th, ret |-> code, chunk |-> <<>>]
Returned(st, th, code) ==
    [status |-> st,
     th |-> [IdleThread EXCEPT !.calls = th.calls, !.result = code],
     ret |-> code,
     chunk |-> IF code = "OK" THEN <<th.cut_low, th.cut_high>> ELSE <<>>]

\* the test of while(mode < nmodes), line 74
DescendHead(t, th) ==
    [th EXCEPT !.pc = IF th.mode < t.nmodes THEN "low" ELSE "cut_low"]

\* the test of while(mode-- > 0), line 148
BacktrackHead(th) ==
    IF th.mode > 0 THEN [th EXCEPT !.mode = @ - 1, !.pc = "back_low"]
    ELSE [th EXCEPT !.mode = SizeMax, !.pc = "flag_up"]

\* the cutting loops of lines 110-119 and 166-175 run by a thread: the step
\* at index_step.data[mode] is read when the indices of [low, high) change
CutByThread(t, st, th, next) ==
    LET data == t.inds[th.mode].data
        flat == \A j \in th.low..(th.high - 1) : data[j] = data[th.low]
    IN  IF ~flat /\ ~Readable(st.index_step, th.mode)
        THEN Faulted(st, th, "UNDEFINED")
        ELSE Moved(st, [th EXCEPT !.i = IF flat THEN th.high
                                        ELSE FindCut(data, th.low, th.high,
                                                     st.index_step.data[th.mode]),
                                  !.pc = next])

\* a thread enters at line 68 with the length it reads, less one
EntryMode(st) == SizeDec(st.partial_low.len)

\* one step of a thread inside spt_SplitSparseTensor
ThreadStep(t, st, th) ==
    LET vec == st[th.vec]
    IN
    CASE th.pc = "entry" ->
            Moved(st, [th EXCEPT !.mode = EntryMode(st), !.pc = "flag"])
      [] th.pc = "flag" ->
            IF st.no_more # 0 THEN Returned(st, th, "NO_MORE")
            ELSE Moved(st, DescendHead(t, th))
      [] th.pc = "low" ->
            IF ~Readable(st.partial_low, th.mode) THEN Faulted(st, th, "UNDEFINED")
            ELSE Moved(st, [th EXCEPT !.low = st.partial_low.data[th.mode],
                                      !.pc = "high"])
      [] th.pc = "high" ->
            IF ~Readable(st.partial_high, th.mode) THEN Faulted(st, th, "UNDEFINED")
            ELSE LET high == st.partial_high.data[th.mode]
                 IN  IF ~(th.low < high) THEN Faulted(st, th, "ASSERT")
                     ELSE IF high > t.nnz THEN Faulted(st, th, "UNDEFINED")
                     ELSE Moved(st, [th EXCEPT
                              !.high = high,
                              !.value = IndexStep(
                                  CountIndices(t.inds[th.mode].data, th.low, high),
                                  st.cuts_by_mode.data[th.mode]),
                              !.vec = "index_step",
                              !.pc = "grow"])
      [] th.pc = "grow" ->
            Moved([st EXCEPT ![th.vec] =
                       IF vec.cap <= vec.len
                       THEN [vec EXCEPT !.cap = vec.cap + (vec.cap \div 2),
                                        !.data = Realloc(vec.data, vec.cap,
                                                         vec.cap + (vec.cap \div 2))]
                       ELSE vec],
                  [th EXCEPT !.pc = "store"])
      [] th.pc = "store" ->
            IF vec.len \notin DOMAIN vec.data THEN Faulted(st, th, "UNDEFINED")
            ELSE Moved([st EXCEPT ![th.vec].data[vec.len] = th.value],
                       [th EXCEPT !.pc = "len_read"])
      [] th.pc = "len_read" ->
            Moved(st, [th EXCEPT !.len = vec.len, !.pc = "len_up"])
      [] th.pc = "len_up" ->
            Moved([st EXCEPT ![th.vec].len = SizeInc(th.len)],
                  CASE th.vec = "index_step" ->
                          [th EXCEPT !.len = 0, !.vec = "none", !.pc = "cut"]
                    [] th.vec = "partial_low" ->
                          [th EXCEPT !.len = 0, !.value = th.i,
                                     !.vec = "partial_high", !.pc = "grow"]
                    [] th.vec = "partial_high" ->
                          DescendHead(t, [th EXCEPT !.len = 0, !.value = 0, !.i = 0,
                                                    !.low = 0, !.high = 0,
                                                    !.vec = "none",
                                                    !.mode = @ + 1]))
      [] th.pc = "cut" ->
            LET r == CutByThread(t, st, th, "grow")
            IN  IF r.ret # "none" THEN r
                ELSE [r EXCEPT !.th.value = th.low, !.th.vec = "partial_low",
                               !.th.low = 0, !.th.high = 0]
      [] th.pc = "cut_low" ->
            IF ~Readable(st.partial_low, t.nmodes) THEN Faulted(st, th, "UNDEFINED")
            ELSE Moved(st, [th EXCEPT !.cut_low = st.partial_low.data[t.nmodes],
                                      !.pc = "cut_high"])
      [] th.pc = "cut_high" ->
            IF ~Readable(st.partial_high, t.nmodes) THEN Faulted(st, th, "UNDEFINED")
            ELSE LET cut_high == st.partial_high.data[t.nmodes]
                 IN  IF ~(th.cut_low <= cut_high /\ cut_high <= t.nnz)
                     THEN Faulted(st, th, "UNDEFINED")
                     ELSE Moved(st, BacktrackHead([th EXCEPT !.cut_high = cut_high,
                                                             !.mode = t.nmodes]))
      [] th.pc = "back_low" ->
            IF ~Readable(st.partial_high, th.mode + 1)
            THEN Faulted(st, th, "UNDEFINED")
            ELSE Moved(st, [th EXCEPT !.low = st.partial_high.data[th.mode + 1],
                                      !.pc = "back_high"])
      [] th.pc = "back_high" ->
            IF ~Readable(st.partial_high, th.mode) THEN Faulted(st, th, "UNDEFINED")
            ELSE LET high == st.partial_high.data[th.mode]
                 IN  IF th.low >= high
                     THEN Moved(st, [th EXCEPT !.low = 0, !.vec = "partial_low",
                                               !.pc = "pop_read"])
                     ELSE IF high > t.nnz THEN Faulted(st, th, "UNDEFINED")
                     ELSE Moved(st, [th EXCEPT !.high = high, !.pc = "back_cut"])
      [] th.pc = "pop_read" ->
            Moved(st, [th EXCEPT !.len = vec.len, !.pc = "pop_write"])
      [] th.pc = "pop_write" ->
            Moved([st EXCEPT ![th.vec].len = SizeDec(th.len)],
                  CASE th.vec = "partial_low" ->
                          [th EXCEPT !.len = 0, !.vec = "partial_high",
                                     !.pc = "pop_read"]
                    [] th.vec = "partial_high" ->
                          [th EXCEPT !.len = 0, !.vec = "index_step",
                                     !.pc = "pop_read"]
                    [] th.vec = "index_step" ->
                          BacktrackHead([th EXCEPT !.len = 0, !.vec = "none"]))
      [] th.pc = "back_cut" ->
            LET r == CutByThread(t, st, th, "back_store_low")
            IN  IF r.ret # "none" THEN r ELSE [r EXCEPT !.th.high = 0]
      [] th.pc = "back_store_low" ->
            IF (th.mode + 1) \notin DOMAIN st.partial_low.data
            THEN Faulted(st, th, "UNDEFINED")
            ELSE Moved([st EXCEPT !.partial_low.data[th.mode + 1] = th.low],
                       [th EXCEPT !.pc = "back_store_high"])
      [] th.pc = "back_store_high" ->
            IF (th.mode + 1) \notin DOMAIN st.partial_high.data
            THEN Faulted(st, th, "UNDEFINED")
            ELSE Returned([st EXCEPT !.partial_high.data[th.mode + 1] = th.i],
                          th, "OK")
      [] th.pc = "flag_up" ->
            Returned([st EXCEPT !.no_more = 1], th, "OK")

\* the tensors whose status two threads share: one mode, sorted, not empty;
\* the split looks at the indices only to tell where they change, so the
\* first index is 0 and each change is a step of one
ConcTensors ==
    {t \in SourceTensors :
        /\ t.nmodes = 1 /\ t.sortkey = 0 /\ t.nnz \in 1..MaxNnzConc
        /\ t.inds[0].data[0] = 0
        /\ \A j \in 1..(t.nnz - 1) : t.inds[0].data[j] <= t.inds[0].data[j - 1] + 1}

\* the status has been started and both threads hold it
InitConc ==
    /\ tsr \in ConcTensors
    /\ cuts \in [0..(tsr.nmodes - 1) -> 1..(IF tsr.nnz < MaxCut THEN tsr.nnz ELSE MaxCut)]
    /\ status = spt_StartSplitSparseTensor(tsr, cuts, [site |-> "none"]).status
    /\ dest = NoTensor
    /\ result = "OK"
    /\ pc = "started"
    /\ lastCall = "start"
    /\ chunks = <<>>
    /\ parts = [m \in 0..(tsr.nmodes - 1) |-> 0]
    /\ noMore = 0
    /\ freed = {}
    /\ allocFailure = "none"
    /\ second = [NoSecond EXCEPT !.solo = SoloChunks(tsr, cuts)]
    /\ vs = NoVs
    /\ threads = [NoThreads EXCEPT !.th = [k \in 1..2 |-> IdleThread]]

\* thread k calls spt_SplitSparseTensor(&dest_k, status); thread 1 is the
\* one of the two that makes the first call
ThreadCall(k) ==
    /\ threads.fault = "none"
    /\ k # 1 => threads.th[1].calls > 0
    /\ threads.th[1].calls + threads.th[2].calls < MaxCallsConc
    /\ threads.th[k].pc = "idle"
    /\ threads.th[k].result # "NO_MORE"
    /\ threads' = [threads EXCEPT
                      !.th[k].pc = "entry",
                      !.th[k].calls = @ + 1,
                      !.overlapped = @ \/ (\E o \in 1..2 : o # k /\ threads.th[o].pc # "idle")]
    /\ UNCHANGED <<tsr, cuts, status, dest, result, pc, lastCall, chunks, parts,
                   noMore, freed, allocFailure, second, vs>>

\* thread k makes its next access to the status; the call may return
ThreadMove(k) ==
    /\ threads.fault = "none"
    /\ threads.th[k].pc # "idle"
    /\ \E r \in {ThreadStep(tsr, status, threads.th[k])} :
        \E outcome \in Outcomes(r.ret) :
            /\ status' = r.status
            /\ threads' = [threads EXCEPT
                              !.th[k] = r.th,
                              !.fault = IF outcome \in {"CRASH", "UNDEFINED", "ASSERT"}
                                        THEN outcome ELSE @]
            /\ chunks' = IF outcome = "OK" THEN Append(chunks, r.chunk) ELSE chunks
            /\ result' = IF outcome \in {"OK", "NO_MORE"} THEN outcome ELSE result
            /\ lastCall' = IF outcome \in {"OK", "NO_MORE"} THEN "split" ELSE lastCall
    /\ UNCHANGED <<tsr, cuts, dest, pc, parts, noMore, freed, allocFailure, second, vs>>

NextConc == \E k \in 1..2 : ThreadCall(k) \/ ThreadMove(k)

SpecConc == InitConc /\ [][NextConc]_vars

\* no thread is inside a call
AllIdle == \A k \in DOMAIN threads.th : threads.th[k].pc = "idle"

\* some range has been returned twice
ReturnedTwice == \E a, b \in 1..NumChunks : a < b /\ chunks[a] = chunks[b]

\* the step stack and the range stacks are out of step
OutOfStep == status.partial_low.len # status.index_step.len + 1

\* a thread has been told NoMore though a range of the status driven alone
\* was never returned
Skipped ==
    /\ \E k \in DOMAIN threads.th : threads.th[k].result = "NO_MORE"
    /\ \E j \in 1..Len(second.solo) :
           \A a \in 1..NumChunks : chunks[a] # second.solo[j]

\* C25: two produce calls on one status that overlap are unsafe, and only
\* those: as long as no call has started while another was running, the
\* process has not faulted, the ranges returned are the first ranges of the
\* status driven alone, none twice, all of them once NoMore is returned, and
\* the stacks are in step between calls; with overlapping calls a state is
\* reached in which a range has been returned twice, one has been skipped,
\* or the stacks are out of step.
C25_UnsafeOnlyWhenOverlapping ==
    (DOMAIN threads.th # {} /\ ~threads.overlapped) =>
        /\ threads.fault = "none"
        /\ IsPrefix(chunks, second.solo)
        /\ ~ReturnedTwice
        /\ ~Skipped
        /\ AllIdle => ~OutOfStep

C25_Witness ==
    /\ threads.overlapped /\ threads.fault = "none" /\ AllIdle
    /\ ReturnedTwice
    /\ OutOfStep
====
